---- MODULE Spec2Model ----
(***************************************************************************)
(* A model of envkeeper (src/index.js): the EnvKeeper validator over the   *)
(* process environment.                                                    *)
(*                                                                         *)
(* Strings that the code inspects character by character (environment     *)
(* values, type tags, stringified defaults) are sequences of one-character *)
(* strings, so that length, substring, case folding and numeric conversion *)
(* are computed.  Variable names and regular-expression sources are only   *)
(* ever compared whole and are plain strings.  The text of an error's      *)
(* message, and the `expected`/`reason` texts of an invalid entry, are     *)
(* functions of the entry's (name, value, check) and are not spelled out.  *)
(***************************************************************************)
EXTENDS Integers, Sequences, FiniteSets, TLC

VARIABLES env, envPre, env0, call, result, firstDef, lastDef

allVars == <<env, envPre, env0, call, result, firstDef, lastDef>>

(***************************************************************************)
(* Bounds of the model.                                                    *)
(***************************************************************************)
MaxNames == 3
PortSpan == 4

(***************************************************************************)
(* Characters.                                                             *)
(***************************************************************************)
Digits == <<"0", "1", "2", "3", "4", "5", "6", "7", "8", "9">>
Lower == <<"a", "b", "c", "d", "e", "f", "g", "h", "i", "j", "k", "l", "m",
           "n", "o", "p", "q", "r", "s", "t", "u", "v", "w", "x", "y", "z">>
Upper == <<"A", "B", "C", "D", "E", "F", "G", "H", "I", "J", "K", "L", "M",
           "N", "O", "P", "Q", "R", "S", "T", "U", "V", "W", "X", "Y", "Z">>

Range(s) == {s[i] : i \in DOMAIN s}
IndexOf(s, c) == CHOOSE i \in DOMAIN s : s[i] = c

IsDigit(c) == c \in Range(Digits)
DigitVal(c) == IndexOf(Digits, c) - 1
IsHexDigit(c) == IsDigit(c) \/ c \in Range(SubSeq(Lower, 1, 6)) \/ c \in Range(SubSeq(Upper, 1, 6))
HexVal(c) ==
    IF IsDigit(c) THEN DigitVal(c)
    ELSE IF c \in Range(Lower) THEN 9 + IndexOf(Lower, c) ELSE 9 + IndexOf(Upper, c)
IsAlpha(c) == c \in Range(Lower) \/ c \in Range(Upper)
IsSpace(c) == c = " "

\* String.prototype.toLowerCase on the ASCII range.
ToLowerChar(c) == IF c \in Range(Upper) THEN Lower[IndexOf(Upper, c)] ELSE c
ToLowerCase(s) == [i \in DOMAIN s |-> ToLowerChar(s[i])]

Min(a, b) == IF a < b THEN a ELSE b

\* String.prototype.substring(0, n).
Substring0(s, n) == SubSeq(s, 1, Min(n, Len(s)))

Drop(s, n) == SubSeq(s, n + 1, Len(s))
AllDigits(s) == \A i \in DOMAIN s : IsDigit(s[i])

\* The white space the conversions strip from both ends (the space character).
RECURSIVE TrimLeft(_)
TrimLeft(s) == IF s # <<>> /\ IsSpace(s[1]) THEN TrimLeft(Tail(s)) ELSE s
RECURSIVE TrimRight(_)
TrimRight(s) ==
    IF s # <<>> /\ IsSpace(s[Len(s)]) THEN TrimRight(SubSeq(s, 1, Len(s) - 1)) ELSE s
Trim(s) == TrimRight(TrimLeft(s))

\* The longest prefix of s made of digits.
RECURSIVE DigitPrefixLen(_)
DigitPrefixLen(s) ==
    IF s # <<>> /\ IsDigit(s[1]) THEN 1 + DigitPrefixLen(Tail(s)) ELSE 0

\* The value of a run of decimal digits (0 for the empty run).
RECURSIVE DecValue(_)
DecValue(s) ==
    IF s = <<>> THEN 0 ELSE 10 * DecValue(SubSeq(s, 1, Len(s) - 1)) + DigitVal(s[Len(s)])

\* String(n) for an integer n: its decimal text.
RECURSIVE NatToString(_)
NatToString(n) ==
    IF n < 10 THEN <<Digits[n + 1]>> ELSE NatToString(n \div 10) \o <<Digits[(n % 10) + 1]>>
IntToString(n) == IF n < 0 THEN <<"-">> \o NatToString(-n) ELSE NatToString(n)

(***************************************************************************)
(* Number(value): the StringToNumber conversion.  A number is nan, inf or  *)
(* fin; a fin number is (-1)^neg * mant * 10^exp.  The conversion strips   *)
(* white space, reads "" as 0, and accepts 0x/0o/0b integer literals and   *)
(* signed decimal literals with an optional fraction and exponent, or      *)
(* Infinity.  Magnitudes of 2^1024 and above become inf and magnitudes     *)
(* below the smallest subnormal become 0, decided on the decimal order of  *)
(* magnitude (the mantissas of the model have far fewer than 17 digits, so *)
(* no other rounding of the double applies).                               *)
(***************************************************************************)
NaN == [kind |-> "nan", neg |-> FALSE, mant |-> 0, exp |-> 0]
Infinite(neg) == [kind |-> "inf", neg |-> neg, mant |-> 0, exp |-> 0]
Finite(neg, mant, exp) == [kind |-> "fin", neg |-> neg, mant |-> mant, exp |-> exp]

MaxDecimalOrder == 309
MinDecimalOrder == -323
MaxLeading == 1798

NumDigits(n) == Len(NatToString(n))

\* The first four significant digits of mant, as a number in 1000..9999.
RECURSIVE Leading4(_)
Leading4(mant) ==
    IF mant >= 10000 THEN Leading4(mant \div 10)
    ELSE IF mant < 1000 THEN Leading4(mant * 10) ELSE mant

\* The double nearest to mant * 10^exp.
RoundToDouble(neg, mant, exp) ==
    IF mant = 0 THEN Finite(neg, 0, 0)
    ELSE LET order == NumDigits(mant) + exp
         IN  IF order > MaxDecimalOrder
                \/ (order = MaxDecimalOrder /\ Leading4(mant) >= MaxLeading)
             THEN Infinite(neg)
             ELSE IF order < MinDecimalOrder THEN Finite(neg, 0, 0)
             ELSE Finite(neg, mant, exp)

RECURSIVE RadixValue(_, _)
RadixValue(s, radix) ==
    IF s = <<>> THEN 0
    ELSE radix * RadixValue(SubSeq(s, 1, Len(s) - 1), radix) + HexVal(s[Len(s)])

\* NonDecimalIntegerLiteral: 0x, 0o, 0b (either case) and at least one digit.
RadixOf(s) ==
    IF Len(s) < 2 \/ s[1] # "0" THEN 0
    ELSE CASE ToLowerChar(s[2]) = "x" -> 16
           [] ToLowerChar(s[2]) = "o" -> 8
           [] ToLowerChar(s[2]) = "b" -> 2
           [] OTHER -> 0

IsRadixLiteral(s) ==
    /\ RadixOf(s) # 0
    /\ Len(s) > 2
    /\ \A i \in 3..Len(s) : IsHexDigit(s[i]) /\ HexVal(s[i]) < RadixOf(s)

\* The exponent part: "" is 0; otherwise e or E, an optional sign, digits.
ExponentOk(s) ==
    \/ s = <<>>
    \/ /\ ToLowerChar(s[1]) = "e"
       /\ LET r == Drop(s, 1)
              d == IF r # <<>> /\ r[1] \in {"+", "-"} THEN Drop(r, 1) ELSE r
          IN  d # <<>> /\ AllDigits(d)

ExponentValue(s) ==
    IF s = <<>> THEN 0
    ELSE LET r == Drop(s, 1)
         IN  IF r[1] = "-" THEN 0 - DecValue(Drop(r, 1))
             ELSE IF r[1] = "+" THEN DecValue(Drop(r, 1)) ELSE DecValue(r)

\* StrUnsignedDecimalLiteral, with the sign already read.
UnsignedDecimal(neg, s) ==
    IF s = <<"I", "n", "f", "i", "n", "i", "t", "y">> THEN Infinite(neg)
    ELSE
      LET intLen  == DigitPrefixLen(s)
          afterI  == Drop(s, intLen)
          hasDot  == afterI # <<>> /\ afterI[1] = "."
          fracSrc == IF hasDot THEN Drop(afterI, 1) ELSE afterI
          fracLen == IF hasDot THEN DigitPrefixLen(fracSrc) ELSE 0
          expSrc  == Drop(fracSrc, fracLen)
          digits  == SubSeq(s, 1, intLen) \o SubSeq(fracSrc, 1, fracLen)
      IN  IF intLen + fracLen = 0 \/ ~ExponentOk(expSrc) THEN NaN
          ELSE RoundToDouble(neg, DecValue(digits), ExponentValue(expSrc) - fracLen)

ToNumber(value) ==
    LET s == Trim(value)
    IN  IF s = <<>> THEN Finite(FALSE, 0, 0)
        ELSE IF IsRadixLiteral(s) THEN RoundToDouble(FALSE, RadixValue(Drop(s, 2), RadixOf(s)), 0)
        ELSE IF s[1] = "-" THEN UnsignedDecimal(TRUE, Drop(s, 1))
        ELSE IF s[1] = "+" THEN UnsignedDecimal(FALSE, Drop(s, 1))
        ELSE UnsignedDecimal(FALSE, s)

IsNaN(x) == x.kind = "nan"
IsFinite(x) == x.kind = "fin"

RECURSIVE Pow10(_)
Pow10(k) == IF k = 0 THEN 1 ELSE 10 * Pow10(k - 1)

\* Number.isInteger.
NumberIsInteger(x) ==
    /\ x.kind = "fin"
    /\ \/ x.mant = 0
       \/ x.exp >= 0
       \/ (0 - x.exp) < NumDigits(x.mant) /\ x.mant % Pow10(0 - x.exp) = 0

\* The magnitude of an integer-valued fin number, or cap + 1 when above cap.
RECURSIVE MagnitudeCapped(_, _, _)
MagnitudeCapped(mant, exp, cap) ==
    IF exp = 0 THEN Min(mant, cap + 1)
    ELSE IF exp < 0 THEN MagnitudeCapped(mant \div 10, exp + 1, cap)
    ELSE IF mant > cap THEN cap + 1
    ELSE MagnitudeCapped(mant * 10, exp - 1, cap)

\* The range test admitting zero.
NonNegativeAtMost(x, hi) ==
    /\ x.kind = "fin"
    /\ ~x.neg
    /\ MagnitudeCapped(x.mant, x.exp, hi) <= hi

\* x > 0 and x <= hi, for integer-valued x.
PositiveAtMost(x, hi) ==
    /\ x.kind = "fin"
    /\ ~x.neg
    /\ x.mant # 0
    /\ MagnitudeCapped(x.mant, x.exp, hi) <= hi

(***************************************************************************)
(* The other conversions _validateType relies on.                          *)
(***************************************************************************)
NotSpaceNorAt(c) == ~IsSpace(c) /\ c # "@"
NoSpaceNorAt(s) == \A i \in DOMAIN s : NotSpaceNorAt(s[i])

\* /^[^\s@]+@[^\s@]+\.[^\s@]+$/.test(value)
EmailRegexTest(value) ==
    \E i \in DOMAIN value : \E j \in DOMAIN value :
        /\ 1 < i /\ i + 1 < j /\ j < Len(value)
        /\ value[i] = "@"
        /\ value[j] = "."
        /\ NoSpaceNorAt(SubSeq(value, 1, i - 1))
        /\ NoSpaceNorAt(SubSeq(value, i + 1, j - 1))
        /\ NoSpaceNorAt(SubSeq(value, j + 1, Len(value)))

\* new URL(value) with no base, on strings whose host (if any) is made of
\* letters, digits, "-" and "." with a non-numeric last label: the input is
\* trimmed, must start with a scheme and ":", and a special scheme other than
\* file needs a non-empty host and, if a port is given, one of at most 65535.
IsSchemeChar(c) == IsAlpha(c) \/ IsDigit(c) \/ c \in {"+", "-", "."}
IsHostChar(c) == IsAlpha(c) \/ IsDigit(c) \/ c \in {"-", "."}
AllSchemeChars(s) == \A i \in DOMAIN s : IsSchemeChar(s[i])
AllHostChars(s) == \A i \in DOMAIN s : IsHostChar(s[i])
IsSlash(c) == c \in {"/", "\\"}
EndsAuthority(c) == c \in {"/", "\\", "?", "#"}
SpecialSchemes ==
    { <<"h", "t", "t", "p">>, <<"h", "t", "t", "p", "s">>, <<"w", "s">>,
      <<"w", "s", "s">>, <<"f", "t", "p">> }
MaxPort == 65535

SchemeLen(s) ==
    IF \E k \in DOMAIN s : s[k] = ":"
    THEN LET k == CHOOSE k \in DOMAIN s :
                      s[k] = ":" /\ \A i \in 1..(k - 1) : s[i] # ":"
         IN  IF k > 1 /\ IsAlpha(s[1]) /\ AllSchemeChars(SubSeq(s, 1, k - 1))
             THEN k - 1 ELSE 0
    ELSE 0

RECURSIVE SkipSlashes(_)
SkipSlashes(s) == IF s # <<>> /\ IsSlash(s[1]) THEN SkipSlashes(Tail(s)) ELSE s

RECURSIVE AuthorityOf(_)
AuthorityOf(s) ==
    IF s = <<>> \/ EndsAuthority(s[1]) THEN <<>> ELSE <<s[1]>> \o AuthorityOf(Tail(s))

LastIndexOf(s, c) ==
    IF \E i \in DOMAIN s : s[i] = c
    THEN CHOOSE i \in DOMAIN s : s[i] = c /\ \A j \in (i + 1)..Len(s) : s[j] # c
    ELSE 0

HostPortOk(hostport) ==
    LET colon == LastIndexOf(hostport, ":")
        host  == IF colon = 0 THEN hostport ELSE SubSeq(hostport, 1, colon - 1)
        port  == IF colon = 0 THEN <<>> ELSE Drop(hostport, colon)
    IN  /\ host # <<>>
        /\ AllHostChars(host)
        /\ AllDigits(port)
        /\ Len(port) <= 5
        /\ DecValue(port) <= MaxPort

IsURL(value) ==
    LET s == Trim(value)
        n == SchemeLen(s)
    IN  /\ n > 0
        /\ \/ ToLowerCase(SubSeq(s, 1, n)) \notin SpecialSchemes
           \/ LET authority == AuthorityOf(SkipSlashes(Drop(s, n + 1)))
              IN  HostPortOk(Drop(authority, LastIndexOf(authority, "@")))

\* JSON.parse(value) succeeds, on texts holding one scalar, [] or {}: a
\* literal, a number, or a string without escapes, within white space.
IsJSONNumber(s) ==
    LET u       == IF s # <<>> /\ s[1] = "-" THEN Drop(s, 1) ELSE s
        intLen  == DigitPrefixLen(u)
        afterI  == Drop(u, intLen)
        hasDot  == afterI # <<>> /\ afterI[1] = "."
        fracSrc == IF hasDot THEN Drop(afterI, 1) ELSE afterI
        fracLen == IF hasDot THEN DigitPrefixLen(fracSrc) ELSE 0
    IN  /\ intLen >= 1
        /\ (intLen > 1 => u[1] # "0")
        /\ (hasDot => fracLen >= 1)
        /\ ExponentOk(Drop(fracSrc, fracLen))

IsJSONString(s) ==
    /\ Len(s) >= 2
    /\ s[1] = "\"" /\ s[Len(s)] = "\""
    /\ \A i \in 2..(Len(s) - 1) : s[i] \notin {"\"", "\\"}

IsJSON(value) ==
    LET s == Trim(value)
    IN  \/ s \in { <<"t", "r", "u", "e">>, <<"f", "a", "l", "s", "e">>,
                   <<"n", "u", "l", "l">> }
        \/ IsJSONNumber(s)
        \/ IsJSONString(s)
        \/ /\ Len(s) >= 2
           /\ <<s[1], s[Len(s)]>> \in { <<"[", "]">>, <<"{", "}">> }
           /\ Trim(SubSeq(s, 2, Len(s) - 1)) = <<>>

BooleanWords ==
    { <<"t", "r", "u", "e">>, <<"f", "a", "l", "s", "e">>, <<"1">>, <<"0">> }

\* EnvKeeper._validateType(value, expectedType)
ValidateType(value, expectedType) ==
    LET tag == ToLowerCase(expectedType)
    IN  CASE tag = <<"s", "t", "r", "i", "n", "g">> -> TRUE
          [] tag = <<"n", "u", "m", "b", "e", "r">> ->
                ~IsNaN(ToNumber(value)) /\ IsFinite(ToNumber(value))
          [] tag = <<"b", "o", "o", "l", "e", "a", "n">> ->
                ToLowerCase(value) \in BooleanWords
          [] tag = <<"u", "r", "l">> -> IsURL(value)
          [] tag = <<"e", "m", "a", "i", "l">> -> EmailRegexTest(value)
          [] tag = <<"j", "s", "o", "n">> -> IsJSON(value)
          [] tag = <<"p", "o", "r", "t">> ->
                LET port == ToNumber(value)
                IN  NumberIsInteger(port) /\ PositiveAtMost(port, MaxPort)
          [] OTHER -> TRUE

(***************************************************************************)
(* The environment mapping: a function from the names that are set to      *)
(* their values (process.env).  The empty string is <<>>.                  *)
(***************************************************************************)
IsSet(e, varName) == varName \in DOMAIN e

\* The test without its empty-string half.
IsMissingUndefinedOnly(e, varName) == ~IsSet(e, varName)

\* value === undefined || value === ''
IsMissing(e, varName) == ~IsSet(e, varName) \/ e[varName] = <<>>

\* process.env[varName] = value
EnvWrite(e, varName, value) ==
    [k \in DOMAIN e \cup {varName} |-> IF k = varName THEN value ELSE e[k]]

(***************************************************************************)
(* Outcomes of a call: a return or a throw.  One record shape serves every *)
(* operation; the fields an operation does not use keep their defaults.    *)
(***************************************************************************)
EmptyMap == [k \in {} |-> <<>>]
NoCheck == [valid |-> FALSE, missing |-> <<>>, set |-> <<>>]
NoResult ==
    [kind |-> "none", error |-> "", missing |-> <<>>, invalid |-> <<>>,
     value |-> <<>>, check |-> NoCheck, listing |-> EmptyMap]

ReturnTrue == [NoResult EXCEPT !.kind = "return"]
ReturnValue(value) == [NoResult EXCEPT !.kind = "return", !.value = value]
ReturnCheck(c) == [NoResult EXCEPT !.kind = "return", !.check = c]
ReturnListing(l) == [NoResult EXCEPT !.kind = "return", !.listing = l]
\* throw new Error(...)
ThrowError == [NoResult EXCEPT !.kind = "throw", !.error = "Error"]
\* throw new EnvKeeperError(message, missing = [], invalid = [])
EnvKeeperError(missing, invalid) ==
    [NoResult EXCEPT !.kind = "throw", !.error = "EnvKeeperError",
                     !.missing = missing, !.invalid = invalid]

(***************************************************************************)
(* require(vars).  An argument is an array of names or something else.     *)
(***************************************************************************)
ArrayOf(items) == [isArray |-> TRUE, items |-> items]
NotAnArray == [isArray |-> FALSE, items |-> <<>>]

\* require stopping at the first missing name.
RequireFirstMissingOnly(e, vars) ==
    IF ~vars.isArray THEN ThrowError
    ELSE LET Missing(varName) == IsMissing(e, varName)
             missing == SelectSeq(vars.items, Missing)
         IN  IF Len(missing) > 0 THEN EnvKeeperError(<<missing[1]>>, <<>>) ELSE ReturnTrue

RequireOutcome(e, vars) ==
    IF ~vars.isArray THEN ThrowError
    ELSE LET Missing(varName) == IsMissing(e, varName)
             missing == SelectSeq(vars.items, Missing)
         IN  IF Len(missing) > 0 THEN EnvKeeperError(missing, <<>>) ELSE ReturnTrue

(***************************************************************************)
(* check(vars)                                                             *)
(***************************************************************************)
Includes(s, x) == \E i \in DOMAIN s : s[i] = x

\* check with `set` left unfiltered.
CheckSetUnfiltered(e, vars) ==
    LET Missing(varName) == IsMissing(e, varName)
        missing == SelectSeq(vars.items, Missing)
    IN  ReturnCheck([valid |-> Len(missing) = 0, missing |-> missing, set |-> vars.items])

CheckOutcome(e, vars) ==
    LET Missing(varName) == IsMissing(e, varName)
        missing == SelectSeq(vars.items, Missing)
        NotInMissing(varName) == ~Includes(missing, varName)
    IN  ReturnCheck([valid   |-> Len(missing) = 0,
                     missing |-> missing,
                     set     |-> SelectSeq(vars.items, NotInMissing)])

(***************************************************************************)
(* list(hideValues = true).  The argument is "undefined" (omitted), "true" *)
(* or "false".                                                             *)
(***************************************************************************)
Hidden == <<"[", "H", "I", "D", "D", "E", "N", "]">>

\* list whose hideValues defaults to false.
ListShownByDefault(e, hideValues) ==
    LET hide == hideValues = "true"
    IN  ReturnListing([key \in DOMAIN e |-> IF hide THEN Hidden ELSE e[key]])

ListOutcome(e, hideValues) ==
    LET hide == IF hideValues = "undefined" THEN TRUE ELSE hideValues = "true"
    IN  ReturnListing([key \in DOMAIN e |-> IF hide THEN Hidden ELSE e[key]])

(***************************************************************************)
(* Rules.  A validation is null, a bare type tag, or an object holding any *)
(* of type, minLength, maxLength, pattern, enum (`has` names the fields    *)
(* that are given).                                                        *)
(***************************************************************************)
NullRule ==
    [kind |-> "null", has |-> {}, type |-> <<>>, minLength |-> 0, maxLength |-> 0,
     pattern |-> "", enum |-> <<>>]
BareRule(tag) == [NullRule EXCEPT !.kind = "bare", !.type = tag]
ObjectRule(has, type, minLength, maxLength, pattern, enum) ==
    [kind |-> "object", has |-> has, type |-> type, minLength |-> minLength,
     maxLength |-> maxLength, pattern |-> pattern, enum |-> enum]

\* typeof validation === 'string' ? { type: validation } : validation
NormalizeRule(validation) ==
    IF validation.kind = "bare"
    THEN ObjectRule({"type"}, validation.type, 0, 0, "", <<>>)
    ELSE validation

\* The truthiness tests of the rule's fields.
TypeGiven(rules) == "type" \in rules.has /\ rules.type # <<>>
MinLengthGiven(rules) == "minLength" \in rules.has /\ rules.minLength # 0
MaxLengthGiven(rules) == "maxLength" \in rules.has /\ rules.maxLength # 0
PatternGiven(rules) == "pattern" \in rules.has /\ rules.pattern # ""
EnumGiven(rules) == "enum" \in rules.has

\* new RegExp(pattern).test(value), for the patterns of the model.
RegExpTest(pattern, value) ==
    CASE pattern = "" -> TRUE
      [] pattern = "^[0-9]+$" -> value # <<>> /\ AllDigits(value)
      [] pattern = "^a" -> value # <<>> /\ value[1] = "a"
      [] pattern = "b" -> Includes(value, "b")

TruncLen == 10
Ellipsis == <<".", ".", ".">>
\* value.substring(0, 10) + '...'
Truncated(value) == Substring0(value, TruncLen) \o Ellipsis

InvalidEntry(varName, value, check) ==
    [name |-> varName, value |-> value, check |-> check]

TypeEntries(varName, value, rules) ==
    <<InvalidEntry(varName, value, "type")>>

MinLengthEntries(varName, value, rules) ==
    IF MinLengthGiven(rules) /\ Len(value) < rules.minLength
    THEN <<InvalidEntry(varName, Truncated(value), "minLength")>> ELSE <<>>

MaxLengthEntries(varName, value, rules) ==
    IF MaxLengthGiven(rules) /\ Len(value) > rules.maxLength
    THEN <<InvalidEntry(varName, Truncated(value), "maxLength")>> ELSE <<>>

PatternEntries(varName, value, rules) ==
    IF PatternGiven(rules) /\ ~RegExpTest(rules.pattern, value)
    THEN <<InvalidEntry(varName, Truncated(value), "pattern")>> ELSE <<>>

EnumEntries(varName, value, rules) ==
    IF EnumGiven(rules) /\ ~Includes(rules.enum, value)
    THEN <<InvalidEntry(varName, value, "enum")>> ELSE <<>>

TypeFails(value, rules) == TypeGiven(rules) /\ ~ValidateType(value, rules.type)

\* The invalid entries one loop iteration pushes for a variable that is set.
EntryInvalid(varName, value, validation) ==
    LET rules == NormalizeRule(validation)
    IN  IF TypeFails(value, rules) THEN TypeEntries(varName, value, rules)
        ELSE MinLengthEntries(varName, value, rules)
             \o MaxLengthEntries(varName, value, rules)
             \o PatternEntries(varName, value, rules)
             \o EnumEntries(varName, value, rules)

(***************************************************************************)
(* validate(schema).  A schema is an object, given as the sequence of its  *)
(* entries in iteration order (names distinct), or something else.         *)
(***************************************************************************)
SchemaOf(entries) == [isObject |-> TRUE, entries |-> entries]
NotAnObject == [isObject |-> FALSE, entries |-> <<>>]
Entry(varName, validation) == [name |-> varName, rule |-> validation]

RECURSIVE SchemaMissing(_, _)
SchemaMissing(e, entries) ==
    IF entries = <<>> THEN <<>>
    ELSE (IF IsMissing(e, entries[1].name) THEN <<entries[1].name>> ELSE <<>>)
         \o SchemaMissing(e, Tail(entries))

RECURSIVE SchemaInvalid(_, _)
SchemaInvalid(e, entries) ==
    IF entries = <<>> THEN <<>>
    ELSE (IF IsMissing(e, entries[1].name) THEN <<>>
          ELSE EntryInvalid(entries[1].name, e[entries[1].name], entries[1].rule))
         \o SchemaInvalid(e, Tail(entries))

ValidateOutcome(e, schema) ==
    IF ~schema.isObject THEN ThrowError
    ELSE LET missing == SchemaMissing(e, schema.entries)
             invalid == SchemaInvalid(e, schema.entries)
         IN  IF Len(missing) > 0 \/ Len(invalid) > 0
             THEN EnvKeeperError(missing, invalid) ELSE ReturnTrue

(***************************************************************************)
(* get(varName, defaultValue = null, validation = null).  A default is     *)
(* null (or omitted), a string, an integer or a boolean.                   *)
(***************************************************************************)
NullValue == [t |-> "null", s |-> <<>>, n |-> 0, b |-> FALSE]
StringValue(s) == [NullValue EXCEPT !.t = "string", !.s = s]
NumberValue(n) == [NullValue EXCEPT !.t = "number", !.n = n]
BooleanValue(b) == [NullValue EXCEPT !.t = "boolean", !.b = b]

\* String(defaultValue)
StringOf(v) ==
    CASE v.t = "string" -> v.s
      [] v.t = "number" -> IntToString(v.n)
      [] v.t = "boolean" ->
            IF v.b THEN <<"t", "r", "u", "e">> ELSE <<"f", "a", "l", "s", "e">>
      [] v.t = "null" -> <<"n", "u", "l", "l">>

\* if (validation)
RuleGiven(validation) ==
    validation.kind = "object" \/ (validation.kind = "bare" /\ validation.type # <<>>)

SingleSchema(varName, validation) == SchemaOf(<<Entry(varName, validation)>>)

\* The catch block without the second validation.
GetRevalidateSwallowed(e, varName, value, validation) ==
    [result |-> ReturnValue(value), env |-> EnvWrite(e, varName, value)]

\* The catch block: write the resolved value back, validate again.
GetRevalidate(e, varName, value, validation) ==
    LET e2     == EnvWrite(e, varName, value)
        second == ValidateOutcome(e2, SingleSchema(varName, validation))
    IN  [result |-> IF second.kind = "throw" THEN second ELSE ReturnValue(value),
         env    |-> e2]

\* get writing the resolved value back whether or not a rule is given.
GetValidatedAlwaysWrites(e, varName, value, validation) ==
    IF RuleGiven(validation)
    THEN IF ValidateOutcome(e, SingleSchema(varName, validation)).kind = "throw"
         THEN GetRevalidate(e, varName, value, validation)
         ELSE [result |-> ReturnValue(value), env |-> e]
    ELSE [result |-> ReturnValue(value), env |-> EnvWrite(e, varName, value)]

\* The try block and what follows it, with the value resolved.
GetValidated(e, varName, value, validation) ==
    IF RuleGiven(validation)
    THEN IF ValidateOutcome(e, SingleSchema(varName, validation)).kind = "throw"
         THEN GetRevalidate(e, varName, value, validation)
         ELSE [result |-> ReturnValue(value), env |-> e]
    ELSE [result |-> ReturnValue(value), env |-> e]

\* The outcome of get and the environment it leaves.
GetOutcome(e, varName, defaultValue, validation) ==
    IF IsMissing(e, varName)
    THEN IF defaultValue.t = "null"
         THEN [result |-> EnvKeeperError(<<>>, <<>>), env |-> e]
         ELSE GetValidated(e, varName, StringOf(defaultValue), validation)
    ELSE GetValidated(e, varName, e[varName], validation)

(***************************************************************************)
(* The inputs the calls are drawn from.                                    *)
(***************************************************************************)
Names == {"A", "B"}

Str80 == <<"8", "0">>
StrAbc == <<"a", "b", "c">>
StrAb == <<"a", "b">>
TagString == <<"s", "t", "r", "i", "n", "g">>
TagNumber == <<"n", "u", "m", "b", "e", "r">>
TagPort == <<"p", "o", "r", "t">>

\* The values a variable starts with (besides being unset).
EnvValues == { <<>>, Str80, StrAbc }

Environments ==
    UNION { [keys -> EnvValues] : keys \in SUBSET Names }

Defaults == { NullValue, StringValue(<<>>), StringValue(StrAb), NumberValue(80) }

RuleNumber == BareRule(TagNumber)
RuleMinLength == ObjectRule({"type", "minLength"}, TagString, 3, 0, "", <<>>)
RuleMaxLengthZero == ObjectRule({"maxLength"}, <<>>, 0, 0, "", <<>>)

Rules == { RuleNumber, RuleMinLength, RuleMaxLengthZero }

\* Sequences over S of length at most n.
SeqsUpTo(S, n) == UNION { [1..k -> S] : k \in 0..n }

NameArrays == { ArrayOf(s) : s \in SeqsUpTo(Names, MaxNames) }

\* The entry sequences of the objects whose keys are among Names.
EntrySeqs ==
    { s \in SeqsUpTo([name : Names, rule : Rules], Cardinality(Names)) :
        \A i \in DOMAIN s : \A j \in DOMAIN s : i # j => s[i].name # s[j].name }

Schemas == { SchemaOf(s) : s \in EntrySeqs }

HideArgs == {"undefined", "true", "false"}

(***************************************************************************)
(* The state: the environment; the last call, its outcome and the          *)
(* environment it started from; and, for the record, the first environment *)
(* and, per name, the stringified default of the first and of the last get *)
(* call made with a default and a rule while the variable was missing.     *)
(***************************************************************************)
NoCall ==
    [op |-> "none", vars |-> NotAnArray, schema |-> NotAnObject, varName |-> "",
     defaultValue |-> NullValue, validation |-> NullRule, hideValues |-> "undefined"]

Init ==
    /\ env \in Environments
    /\ envPre = env
    /\ env0 = env
    /\ call = NoCall
    /\ result = NoResult
    /\ firstDef = EmptyMap
    /\ lastDef = EmptyMap

Require(vars) ==
    /\ call' = [NoCall EXCEPT !.op = "require", !.vars = vars]
    /\ result' = RequireOutcome(env, vars)
    /\ envPre' = env
    /\ UNCHANGED <<env, env0, firstDef, lastDef>>

Validate(schema) ==
    /\ call' = [NoCall EXCEPT !.op = "validate", !.schema = schema]
    /\ result' = ValidateOutcome(env, schema)
    /\ envPre' = env
    /\ UNCHANGED <<env, env0, firstDef, lastDef>>

Check(vars) ==
    /\ call' = [NoCall EXCEPT !.op = "check", !.vars = vars]
    /\ result' = CheckOutcome(env, vars)
    /\ envPre' = env
    /\ UNCHANGED <<env, env0, firstDef, lastDef>>

List(hideValues) ==
    /\ call' = [NoCall EXCEPT !.op = "list", !.hideValues = hideValues]
    /\ result' = ListOutcome(env, hideValues)
    /\ envPre' = env
    /\ UNCHANGED <<env, env0, firstDef, lastDef>>

\* A get call with a default and a rule, made while the variable is missing.
Corrective(e, varName, defaultValue, validation) ==
    IsMissing(e, varName) /\ defaultValue.t # "null" /\ RuleGiven(validation)

Get(varName, defaultValue, validation) ==
    LET out  == GetOutcome(env, varName, defaultValue, validation)
        corr == Corrective(env, varName, defaultValue, validation)
    IN  /\ call' = [NoCall EXCEPT !.op = "get", !.varName = varName,
                                  !.defaultValue = defaultValue,
                                  !.validation = validation]
        /\ result' = out.result
        /\ env' = out.env
        /\ envPre' = env
        /\ firstDef' = IF corr /\ varName \notin DOMAIN firstDef
                       THEN EnvWrite(firstDef, varName, StringOf(defaultValue))
                       ELSE firstDef
        /\ lastDef' = IF corr THEN EnvWrite(lastDef, varName, StringOf(defaultValue))
                      ELSE lastDef
        /\ UNCHANGED env0

Next ==
    \/ \E vars \in NameArrays \cup {NotAnArray} : Require(vars)
    \/ \E schema \in Schemas \cup {NotAnObject} : Validate(schema)
    \/ \E vars \in NameArrays : Check(vars)
    \/ \E hideValues \in HideArgs : List(hideValues)
    \/ \E varName \in Names : \E defaultValue \in Defaults :
         \E validation \in Rules \cup {NullRule} : Get(varName, defaultValue, validation)

Spec == Init /\ [][Next]_allVars

(***************************************************************************)
(* A second specification, for the rules themselves: one variable, A,      *)
(* holding any of a wider set of values, validated against one rule at a   *)
(* time.                                                                   *)
(***************************************************************************)
PortInts == ((0 - PortSpan)..PortSpan) \cup ((MaxPort - PortSpan)..(MaxPort + PortSpan))
IntegerTexts == { IntToString(n) : n \in PortInts }

Str1e3 == <<"1", "e", "3">>
StrHex50 == <<"0", "x", "5", "0">>
Str8Dot0 == <<"8", ".", "0">>
StrPadded80 == <<" ", "8", "0">>
AltIntegerTexts == { Str1e3, StrHex50, Str8Dot0, StrPadded80 }

Str80Dot5 == <<"8", "0", ".", "5">>
StrInfinity == <<"I", "n", "f", "i", "n", "i", "t", "y">>
Str1e5 == <<"1", "e", "5">>
StrTrue == <<"T", "r", "u", "e">>
StrEmail == <<"a", "@", "b", ".", "c">>
StrUrl == <<"h", "t", "t", "p", ":", "/", "/", "a", ".", "i", "o">>
StrBraces == <<"{", "}">>
NonPortTexts == { StrAbc, Str80Dot5, StrInfinity, Str1e5, StrTrue, StrEmail, StrUrl,
                  StrBraces, StrAb }

TypeValues == IntegerTexts \cup AltIntegerTexts \cup NonPortTexts \cup { <<>> }

TagPortUpper == <<"P", "O", "R", "T">>
TagPortMixed == <<"P", "o", "r", "t">>
PortTags == { TagPort, TagPortUpper, TagPortMixed }
TypeTags ==
    PortTags \cup
    { TagString, TagNumber, <<"b", "o", "o", "l", "e", "a", "n">>, <<"u", "r", "l">>,
      <<"e", "m", "a", "i", "l">>, <<"j", "s", "o", "n">>, <<"u", "u", "i", "d">>,
      <<"N", "u", "m", "b", "e", "r">> }

EnumAbc80 == <<StrAbc, Str80>>

ConstraintRules ==
    { ObjectRule(has, TagString, 3, 2, "^a", EnumAbc80) :
        has \in SUBSET {"type", "minLength", "maxLength", "pattern", "enum"} }
    \cup
    { RuleMaxLengthZero,
      ObjectRule({"minLength"}, <<>>, 0, 0, "", <<>>),
      ObjectRule({"pattern"}, <<>>, 0, 0, "", <<>>),
      ObjectRule({"enum"}, <<>>, 0, 0, "", <<>>),
      ObjectRule({"type", "maxLength", "pattern"}, TagNumber, 0, 1, "b", <<>>),
      ObjectRule({"type", "minLength", "enum"}, TagPort, 3, 0, "", EnumAbc80),
      ObjectRule({"minLength", "maxLength", "pattern"}, <<>>, 2, 4, "^[0-9]+$", <<>>) }

TypeRules ==
    { BareRule(tag) : tag \in TypeTags }
    \cup { ObjectRule({"type"}, tag, 0, 0, "", <<>>) : tag \in PortTags }
    \cup ConstraintRules

InitRules ==
    /\ env \in [{"A"} -> TypeValues]
    /\ envPre = env
    /\ env0 = env
    /\ call = NoCall
    /\ result = NoResult
    /\ firstDef = EmptyMap
    /\ lastDef = EmptyMap

NextRules == \E validation \in TypeRules : Validate(SingleSchema("A", validation))

SpecRules == InitRules /\ [][NextRules]_allVars

(***************************************************************************)
(* Vocabulary of the properties, spelled out independently of the          *)
(* operators above.                                                        *)
(***************************************************************************)
\* The variable is absent or bound to the empty string.
AbsentOrEmpty(e, n) == n \notin DOMAIN e \/ e[n] = <<>>

\* The names of s that are absent or empty in e, in order.
RECURSIVE MissingOf(_, _)
MissingOf(e, s) ==
    IF s = <<>> THEN <<>>
    ELSE IF AbsentOrEmpty(e, s[1]) THEN <<s[1]>> \o MissingOf(e, Tail(s))
    ELSE MissingOf(e, Tail(s))

\* The names of s that are set to a non-empty value in e, in order.
RECURSIVE PresentOf(_, _)
PresentOf(e, s) ==
    IF s = <<>> THEN <<>>
    ELSE IF AbsentOrEmpty(e, s[1]) THEN PresentOf(e, Tail(s))
    ELSE <<s[1]>> \o PresentOf(e, Tail(s))

IsValidationError(r) == r.kind = "throw" /\ r.error = "EnvKeeperError"

\* The environment e with name n unset.
Without(e, n) == [k \in DOMAIN e \ {n} |-> e[k]]

\* The environment e with name n bound to value v.
With(e, n, v) == [k \in DOMAIN e \cup {n} |-> IF k = n THEN v ELSE e[k]]

\* C1: every ValidationError raised by require, validate or get carries a
\* non-empty missing sequence or a non-empty invalid sequence.
C1_ErrorCarriesDefect ==
    IsValidationError(result) => Len(result.missing) > 0 \/ Len(result.invalid) > 0

\* C2: get with a validation rule validates the resolved value (the value of
\* the environment if present and non-empty, else the stringified default)
\* as validate would validate a variable holding it: get fails with a
\* ValidationError exactly when validate fails on the environment where the
\* name holds the resolved value, and otherwise returns the resolved string.
C2_Resolved ==
    IF AbsentOrEmpty(envPre, call.varName)
    THEN StringOf(call.defaultValue) ELSE envPre[call.varName]

C2_GetCase ==
    /\ call.op = "get"
    /\ call.validation.kind # "null"
    /\ (AbsentOrEmpty(envPre, call.varName) => call.defaultValue.t # "null")

C2_DefaultsValidatedAsValues ==
    C2_GetCase =>
        LET ref == ValidateOutcome(With(envPre, call.varName, C2_Resolved),
                                   SingleSchema(call.varName, call.validation))
        IN  /\ result.kind = "throw" <=> ref.kind = "throw"
            /\ result.kind = "throw" => IsValidationError(result)
            /\ result.kind # "throw" => result = ReturnValue(C2_Resolved)

\* An invalid, non-empty default made get fail.
C2_Witness ==
    /\ C2_GetCase
    /\ AbsentOrEmpty(envPre, call.varName)
    /\ C2_Resolved # <<>>
    /\ IsValidationError(result)
    /\ Len(result.invalid) > 0

\* The value of a present variable violates the rule given for it: its type
\* check fails, or a constraint the rule holds is violated.
RuleViolated(value, validation) ==
    LET rules == IF validation.kind = "bare"
                 THEN [has |-> {"type"}, type |-> validation.type] ELSE validation
    IN  \/ "type" \in rules.has /\ ~ValidateType(value, rules.type)
        \/ "minLength" \in rules.has /\ Len(value) < rules.minLength
        \/ "maxLength" \in rules.has /\ Len(value) > rules.maxLength
        \/ "pattern" \in rules.has /\ ~RegExpTest(rules.pattern, value)
        \/ "enum" \in rules.has /\ \A i \in DOMAIN rules.enum : rules.enum[i] # value

C3_Names == [i \in DOMAIN call.schema.entries |-> call.schema.entries[i].name]

C3_FailingEntries ==
    { i \in DOMAIN call.schema.entries :
        /\ ~AbsentOrEmpty(envPre, call.schema.entries[i].name)
        /\ RuleViolated(envPre[call.schema.entries[i].name], call.schema.entries[i].rule) }

\* C3: validate reports the complete defect list: missing is exactly the
\* schema names that are absent or empty, in schema order, invalid holds at
\* least one entry for every present variable that fails its rule, and
\* validate returns true exactly when there is no defect.
C3_CompleteDefectList ==
    (call.op = "validate" /\ call.schema.isObject) =>
        /\ result.missing = MissingOf(envPre, C3_Names)
        /\ \A i \in C3_FailingEntries :
              \E k \in DOMAIN result.invalid :
                  result.invalid[k].name = call.schema.entries[i].name
        /\ result.kind = "return" <=>
              (MissingOf(envPre, C3_Names) = <<>> /\ C3_FailingEntries = {})
        /\ result.kind = "return" <=>
              (result.missing = <<>> /\ result.invalid = <<>>)

\* The outcome of the last call, had it been made on environment e.
C4_OutcomeOn(e) ==
    CASE call.op = "require" -> RequireOutcome(e, call.vars)
      [] call.op = "validate" -> ValidateOutcome(e, call.schema)
      [] call.op = "check" -> CheckOutcome(e, call.vars)
      [] call.op = "get" ->
            GetOutcome(e, call.varName, call.defaultValue, call.validation).result

\* C4: a name that is absent and the same name bound to the empty string
\* give require, validate, check and get the same outcome.
C4_EmptyIsAbsent ==
    call.op \in {"require", "validate", "check", "get"} =>
        \A n \in Names :
            /\ n \notin DOMAIN envPre =>
                  /\ result = C4_OutcomeOn(envPre)
                  /\ result = C4_OutcomeOn(With(envPre, n, <<>>))
            /\ (n \in DOMAIN envPre /\ envPre[n] = <<>>) =>
                  /\ result = C4_OutcomeOn(envPre)
                  /\ result = C4_OutcomeOn(Without(envPre, n))

\* get replaced an absent variable by its default, under a rule, and returned.
C4_Witness ==
    /\ call.op = "get"
    /\ call.varName \notin DOMAIN envPre
    /\ call.validation.kind # "null"
    /\ result.kind = "return"
    /\ \E n \in Names : n \in DOMAIN envPre /\ envPre[n] = <<>>

\* C5: require(names) returns true exactly when no listed name is absent or
\* empty, and otherwise fails with a ValidationError whose missing is all the
\* missing names in the order given; require([]) returns true.
C5_RequireReportsAllMissing ==
    (call.op = "require" /\ call.vars.isArray) =>
        /\ result.kind = "return" <=>
              \A i \in DOMAIN call.vars.items : ~AbsentOrEmpty(envPre, call.vars.items[i])
        /\ result.kind # "return" =>
              /\ IsValidationError(result)
              /\ result.missing = MissingOf(envPre, call.vars.items)
        /\ (\A i \in DOMAIN call.vars.items : call.vars.items[i] \notin DOMAIN envPre)
              /\ call.vars.items # <<>>
              => IsValidationError(result) /\ result.missing = call.vars.items
        /\ call.vars.items = <<>> => result.kind = "return"

\* require failed on several missing names, passing over one that is set.
C5_Witness ==
    /\ call.op = "require"
    /\ IsValidationError(result)
    /\ Len(result.missing) >= 2
    /\ Len(result.missing) < Len(call.vars.items)

\* C6: check(names) never fails; valid is true exactly when missing is empty,
\* missing is the names that are absent or empty, set the remaining names,
\* both in the order given, disjoint and together covering names.
C6_CheckPartitionsNames ==
    call.op = "check" =>
        /\ result.kind = "return"
        /\ result.check.valid <=> result.check.missing = <<>>
        /\ result.check.missing = MissingOf(envPre, call.vars.items)
        /\ result.check.set = PresentOf(envPre, call.vars.items)
        /\ Range(result.check.missing) \cap Range(result.check.set) = {}
        /\ Range(result.check.missing) \cup Range(result.check.set) = Range(call.vars.items)
        /\ Len(result.check.missing) + Len(result.check.set) = Len(call.vars.items)

\* check told a set name from a missing one.
C6_Witness ==
    /\ call.op = "check"
    /\ result.check.missing # <<>>
    /\ result.check.set # <<>>
    /\ ~result.check.valid

\* Environments a and b differ at name n.
DiffersAt(a, b, n) ==
    \/ (n \in DOMAIN a) # (n \in DOMAIN b)
    \/ n \in DOMAIN a /\ n \in DOMAIN b /\ a[n] # b[n]

\* The last call was a get without a rule, or a get on a present variable.
C7_PlainGet ==
    /\ call.op = "get"
    /\ call.validation.kind = "null" \/ ~AbsentOrEmpty(envPre, call.varName)

\* The calls other than the corrective get leave the environment as it was.
C7_OnlyGetWrites ==
    /\ call.op \in {"require", "validate", "check", "list"} => env = envPre
    /\ C7_PlainGet => env = envPre

\* C7 as claimed: the environment differs from the initial one only at names
\* given to a get call with a default and a rule while missing, where it
\* holds the stringified default of the first such call; every other call
\* leaves the environment unchanged.
C7_FirstDefaultStored ==
    /\ C7_OnlyGetWrites
    /\ \A n \in Names :
          DiffersAt(env, env0, n) =>
              n \in DOMAIN firstDef /\ n \in DOMAIN env /\ env[n] = firstDef[n]

\* C7 as amended: the environment differs from the initial one only at names
\* given to a get call with a default and a rule while missing, where it
\* holds the stringified default of the last such call; every other call
\* leaves the environment unchanged.
C7_LastDefaultStored ==
    /\ C7_OnlyGetWrites
    /\ \A n \in Names :
          /\ DiffersAt(env, env0, n) => n \in DOMAIN lastDef
          /\ n \in DOMAIN lastDef => n \in DOMAIN env /\ env[n] = lastDef[n]
          /\ (n \in DOMAIN firstDef /\ firstDef[n] # <<>>) => env[n] = firstDef[n]

\* A second corrective get overwrote the empty default the first one stored.
C7_Witness ==
    \E n \in Names :
        /\ n \in DOMAIN lastDef
        /\ firstDef[n] # lastDef[n]
        /\ DiffersAt(env, env0, n)
        /\ call.op = "get" /\ call.varName = n

HiddenMarker == <<"[", "H", "I", "D", "D", "E", "N", "]">>

\* C10: list never fails and returns a mapping over exactly the keys of the
\* environment at call time, empty-valued keys included; list(true) and
\* list() map every key to [HIDDEN], list(false) to its value.
C10_ListSnapshots ==
    call.op = "list" =>
        /\ result.kind = "return"
        /\ DOMAIN result.listing = DOMAIN envPre
        /\ call.hideValues \in {"undefined", "true"} =>
              \A k \in DOMAIN envPre : result.listing[k] = HiddenMarker
        /\ call.hideValues = "false" =>
              \A k \in DOMAIN envPre : result.listing[k] = envPre[k]

\* list() with no argument hid a non-empty value and kept an empty-valued key.
C10_Witness ==
    /\ call.op = "list"
    /\ call.hideValues = "undefined"
    /\ \E k \in DOMAIN envPre : envPre[k] = <<>> /\ result.listing[k] = HiddenMarker
    /\ \E k \in DOMAIN envPre : envPre[k] # <<>> /\ result.listing[k] = HiddenMarker

\* The single entry of the last validate call, and the value it examined.
C8_Entry == call.schema.entries[1]
C8_Value == envPre[C8_Entry.name]
C8_Has ==
    IF C8_Entry.rule.kind = "bare" THEN {"type"} ELSE C8_Entry.rule.has

C8_TypeFails == "type" \in C8_Has /\ ~ValidateType(C8_Value, C8_Entry.rule.type)

\* The constraints the rule holds that the value violates.
C8_Violated ==
    { c \in C8_Has \ {"type"} :
        CASE c = "minLength" -> Len(C8_Value) < C8_Entry.rule.minLength
          [] c = "maxLength" -> Len(C8_Value) > C8_Entry.rule.maxLength
          [] c = "pattern" -> ~RegExpTest(C8_Entry.rule.pattern, C8_Value)
          [] c = "enum" -> \A i \in DOMAIN C8_Entry.rule.enum :
                               C8_Entry.rule.enum[i] # C8_Value }

C8_Case ==
    /\ call.op = "validate"
    /\ Len(call.schema.entries) = 1
    /\ ~AbsentOrEmpty(envPre, C8_Entry.name)

\* C8: for a present variable, a failing type check appends exactly one
\* invalid entry and skips the constraints; otherwise every constraint the
\* rule holds is evaluated, and the number of invalid entries equals the
\* number of those constraints the value violates.
C8_OneEntryPerViolation ==
    C8_Case =>
        IF C8_TypeFails
        THEN Len(result.invalid) = 1 /\ result.invalid[1].check = "type"
        ELSE /\ Len(result.invalid) = Cardinality(C8_Violated)
             /\ \A c \in C8_Violated :
                   \E k \in DOMAIN result.invalid : result.invalid[k].check = c

\* The text of an integer: an optional minus sign and decimal digits.
IsIntegerText(s) ==
    LET u == IF s # <<>> /\ s[1] = "-" THEN Tail(s) ELSE s
    IN  u # <<>> /\ \A i \in DOMAIN u : u[i] \in Range(Digits)

IntegerOfText(s) ==
    IF s[1] = "-" THEN 0 - DecValue(Tail(s)) ELSE DecValue(s)

C9_Case ==
    /\ call.op = "validate"
    /\ Len(call.schema.entries) = 1
    /\ call.schema.entries[1].rule.has \subseteq {"type"}
    /\ call.schema.entries[1].rule.type \in
          { <<"p", "o", "r", "t">>, <<"P", "O", "R", "T">>, <<"P", "o", "r", "t">> }
    /\ ~AbsentOrEmpty(envPre, call.schema.entries[1].name)

C9_Value == envPre[call.schema.entries[1].name]

C9_IntegerTextsInRange ==
    IsIntegerText(C9_Value) =>
        (result.kind = "return" <=>
            (1 <= IntegerOfText(C9_Value) /\ IntegerOfText(C9_Value) <= 65535))

\* C9 as claimed: under a port rule (the tag in any case) the text of an
\* integer n passes exactly when 1 <= n <= 65535, and a value that is not
\* the text of an integer fails.
C9_PortIffIntegerTextInRange ==
    C9_Case =>
        /\ C9_IntegerTextsInRange
        /\ ~IsIntegerText(C9_Value) => IsValidationError(result)

\* C9 as amended: under a port rule (the tag in any case) the text of an
\* integer n passes exactly when 1 <= n <= 65535; a value that converts to
\* no number, to a non-integer or to a number out of range ("abc", "80.5",
\* "Infinity", "1e5") fails; a value in another notation that converts to an
\* integer in range ("1e3", "0x50", "8.0", " 80") passes.
C9_PortIffConvertsInRange ==
    C9_Case =>
        /\ C9_IntegerTextsInRange
        /\ C9_Value \in
              { <<"a", "b", "c">>, <<"8", "0", ".", "5">>, <<"1", "e", "5">>,
                <<"I", "n", "f", "i", "n", "i", "t", "y">> }
              => /\ IsValidationError(result)
                 /\ Len(result.invalid) = 1
        /\ C9_Value \in
              { <<"1", "e", "3">>, <<"0", "x", "5", "0">>, <<"8", ".", "0">>,
                <<" ", "8", "0">> }
              => result.kind = "return"

\* The upper limit itself passed under an upper-case tag.
C9_Witness ==
    /\ C9_Case
    /\ call.schema.entries[1].rule.type = <<"P", "O", "R", "T">>
    /\ C9_Value = <<"6", "5", "5", "3", "5">>
    /\ result.kind = "return"

====
